---- MODULE Spec2Model ----
(***************************************************************************)
(* Model of src/app.py: the /perform_analysis handler of the solar-farm    *)
(* suitability service, the cell-wise raster expressions it builds, and    *)
(* the derived-quantity and viewport arithmetic.                           *)
(*                                                                         *)
(* Number representation (all integers):                                   *)
(*   - contributions and raw scores are in tenths (0.4 -> 4, 2.6 -> 26);   *)
(*     the sums (dem + slope) + lulc of {0,1}, {0,0.4,0.6,1}, {0,1} are    *)
(*     exact in IEEE doubles against the literals 3, 2.6, 2.4;             *)
(*   - areas are in 1/10000 km^2, chart areas in 1/100 km^2, energy in     *)
(*     1/1000 MWh, panels in units;                                        *)
(*   - longitudes and latitudes are in 1/1024 degree.                      *)
(* Python values that can be None are tagged records (PyNone, Num, ...).   *)
(***************************************************************************)
EXTENDS Integers, Sequences, FiniteSets, TLC

VARIABLES
    ee,                        \* module-level sentinel: "module" or "None"
    pc,                        \* position of the handler: next remote call
    data,                      \* request.get_json() of the current request
    calls,                     \* remote calls issued for the current request
    elevation_stats,
    slope_stats,
    cell,                      \* pixel the backend is evaluating
    img,                       \* the bands of the expression graph at cell
    pixels,                    \* pixels reduced so far by the area call
    area_sum,                  \* backend running sums of the area reducer
    total_area_by_class,
    chart_data_features,
    power_generation_mwh,
    num_panels,
    suitability_tile_url,
    solar_radiation_tile_url,
    map_center,
    bounds_geojson,
    map_zoom,
    response,
    raised,                    \* text of the exception a remote call raised
    prev_estimate              \* history: the previous yield estimate

backendVars == <<cell, img, pixels, area_sum>>
statVars == <<elevation_stats, slope_stats>>
yieldVars == <<total_area_by_class, chart_data_features,
               power_generation_mwh, num_panels>>
tileVars == <<suitability_tile_url, solar_radiation_tile_url>>
viewVars == <<map_center, bounds_geojson, map_zoom>>
vars == <<ee, pc, data, calls, statVars, backendVars, yieldVars, tileVars,
          viewVars, response, raised, prev_estimate>>

----------------------------------------------------------------------------
(* Bounds of the model *)

MaxPixels == 2

----------------------------------------------------------------------------
(* Python values *)

PyNone == [t |-> "None"]
Num(n) == [t |-> "num", v |-> n]
List(s) == [t |-> "list", v |-> s]
Dict(f) == [t |-> "dict", v |-> f]

EmptyDict == [k \in {} |-> PyNone]

\* truth value of a Python object, as used by `not aoi_coords`
Truthy(x) ==
    CASE x.t = "None" -> FALSE
      [] x.t = "num"  -> x.v # 0
      [] x.t = "list" -> x.v # <<>>
      [] x.t = "dict" -> DOMAIN x.v # {}

\* dict.get(key, default) on a Python dict held as a function
DictGet(d, key, default) == IF key \in DOMAIN d THEN d[key] ELSE default

\* Python round(): nearest multiple of den, exact ties to the even one
RoundHalfEven(num, den) ==
    LET q == num \div den
        r == num % den
    IN  IF 2 * r < den THEN q
        ELSE IF 2 * r > den THEN q + 1
        ELSE IF q % 2 = 0 THEN q ELSE q + 1

Min2(a, b) == IF a <= b THEN a ELSE b
Max2(a, b) == IF a >= b THEN a ELSE b
SetMin(S) == CHOOSE x \in S : \A y \in S : x <= y
SetMax(S) == CHOOSE x \in S : \A y \in S : x >= y

----------------------------------------------------------------------------
(* Earth Engine image algebra, evaluated at one pixel *)

Lt(a, b) == IF a < b THEN 1 ELSE 0
Gt(a, b) == IF a > b THEN 1 ELSE 0
Eq(a, b) == IF a = b THEN 1 ELSE 0
Gte(a, b) == IF a >= b THEN 1 ELSE 0
And(a, b) == IF a # 0 /\ b # 0 THEN 1 ELSE 0
Or(a, b) == IF a # 0 \/ b # 0 THEN 1 ELSE 0
\* image.where(test, value): value where test is non-zero, else the input
Where(input, test, value) == IF test # 0 THEN value ELSE input

DemClassNoLowerBound(elevation) ==
    Where(0, Lt(elevation, 2000), 10)

DemClass(elevation) ==
    Where(0, And(Lt(elevation, 2000), Gt(elevation, 30)), 10)

SlopeClassOr(slope, elevation) ==
    Where(Where(Where(0, Lt(slope, 5), 10),
                Or(Gt(slope, 5), Lt(elevation, 10)), 6),
          Gt(slope, 10), 4)

SlopeClassSwapped(slope, elevation) ==
    Where(Where(Where(0, Lt(slope, 5), 10),
                Gt(slope, 10), 4),
          And(Gt(slope, 5), Lt(elevation, 10)), 6)

SlopeClass(slope, elevation) ==
    Where(Where(Where(0, Lt(slope, 5), 10),
                And(Gt(slope, 5), Lt(elevation, 10)), 6),
          Gt(slope, 10), 4)

ClassLulc(lulc) ==
    Where(0, Or(Eq(lulc, 20), Eq(lulc, 60)), 10)

SuitabilityRaw(dem_class, slope_class, class_lulc) ==
    (dem_class + slope_class) + class_lulc

ReclassifyLte(suitability_raw) ==
    Where(Where(Where(Where(0, Eq(suitability_raw, 30), 1),
                      Eq(suitability_raw, 26), 2),
                Eq(suitability_raw, 24), 3),
          IF suitability_raw <= 24 THEN 1 ELSE 0, 4)

Reclassify(suitability_raw) ==
    Where(Where(Where(Where(0, Eq(suitability_raw, 30), 1),
                      Eq(suitability_raw, 26), 2),
                Eq(suitability_raw, 24), 3),
          Lt(suitability_raw, 24), 4)

\* suitability.updateMask(suitability.gte(1)): 1 keeps the pixel
UpdateMask(suitability) == Gte(suitability, 1)

\* the bands from three contribution values
Overlay(dem_class, slope_class, class_lulc) ==
    LET raw == SuitabilityRaw(dem_class, slope_class, class_lulc)
        suit == Reclassify(raw)
    IN  [dem_class |-> dem_class, slope_class |-> slope_class,
         class_lulc |-> class_lulc, suitability_raw |-> raw,
         suitability |-> suit, mask |-> UpdateMask(suit)]

\* the bands at a pixel with the given elevation, slope and land cover
Classify(c) ==
    Overlay(DemClass(c.elevation), SlopeClass(c.slope, c.elevation),
            ClassLulc(c.lulc))

names == <<"Most Suitable", "Medium Suitable", "Less Suitable",
           "Not Suitable">>

\* count.multiply(pixel_area_image) at one pixel: band i is the pixel's
\* area where suitability = i; a masked pixel contributes to no band
AreaBands(bands, pixel_area) ==
    [i \in 1..4 |->
        IF bands.mask = 1 THEN Eq(bands.suitability, i) * pixel_area ELSE 0]

----------------------------------------------------------------------------
(* Area and yield estimator *)

ChartDataFeatures(area_by_class) ==
    [i \in 1..4 |->
        LET area_val == DictGet(area_by_class, names[i], Num(0))
        IN  [Suitability |-> names[i],
             Area |-> IF area_val # PyNone
                      THEN RoundHalfEven(area_val.v, 100) ELSE 0,
             Type |-> names[i]]]

\* a missing key read as one square kilometre instead of zero
MostSuitableAreaDefaultOne(area_by_class) ==
    DictGet(area_by_class, "Most Suitable", Num(10000))

MostSuitableArea(area_by_class) ==
    DictGet(area_by_class, "Most Suitable", Num(0))

\* round(area * 1.7 * 0.85 * 300, 3) in 1/1000 MWh: an area of n/10000 km^2
\* gives n * 433.5 / 10 thousandths
PowerGenerationMwh(most_suitable_area_sqkm) ==
    IF most_suitable_area_sqkm # PyNone
    THEN RoundHalfEven(most_suitable_area_sqkm.v * 4335, 100)
    ELSE 0

\* round(area * 1.7 * 0.85 * 1000000): an area of n/10000 km^2 gives
\* n * 144.5 panels
NumPanels(most_suitable_area_sqkm) ==
    IF most_suitable_area_sqkm # PyNone
    THEN RoundHalfEven(most_suitable_area_sqkm.v * 1445, 10)
    ELSE 0

----------------------------------------------------------------------------
(* Viewport framer *)

\* floor(log2(num / den)) for num >= den > 0
RECURSIVE FloorLog2Up(_, _, _)
FloorLog2Up(num, den, k) ==
    IF den <= num \div (2 ^ (k + 1)) THEN FloorLog2Up(num, den, k + 1) ELSE k

\* floor(log2(num / den)) for 0 < num < den
RECURSIVE FloorLog2Down(_, _, _)
FloorLog2Down(num, den, k) ==
    IF num * (2 ^ k) >= den THEN 0 - k ELSE FloorLog2Down(num, den, k + 1)

FloorLog2(num, den) ==
    IF num >= den THEN FloorLog2Up(num, den, 0)
    ELSE FloorLog2Down(num, den, 1)

\* the points of all rings of a GeoJSON coordinates list
RingPoints(coordinates) ==
    UNION {{coordinates[r][i] : i \in DOMAIN coordinates[r]} :
              r \in DOMAIN coordinates}

\* the larger of the two axis zooms is taken
MapZoomMax(bounds) ==
    IF "coordinates" \in DOMAIN bounds /\ Len(bounds.coordinates) > 0
    THEN LET lons == {p[1] : p \in RingPoints(bounds.coordinates)}
             lats == {p[2] : p \in RingPoints(bounds.coordinates)}
         IN  IF lons # {} /\ lats # {}
             THEN LET delta_lon == SetMax(lons) - SetMin(lons)
                      delta_lat == SetMax(lats) - SetMin(lats)
                  IN  IF delta_lon > 0 /\ delta_lat > 0
                      THEN Max2(1, Min2(Max2(FloorLog2(360 * 1024, delta_lon),
                                             FloorLog2(180 * 1024, delta_lat))
                                        + 1, 16))
                      ELSE 10
             ELSE 10
    ELSE 10

\* lines 224-249; floor(min(zoom_lon, zoom_lat)) is taken as the smaller of
\* the two floors, which is the same number
MapZoom(bounds) ==
    IF "coordinates" \in DOMAIN bounds /\ Len(bounds.coordinates) > 0
    THEN LET lons == {p[1] : p \in RingPoints(bounds.coordinates)}
             lats == {p[2] : p \in RingPoints(bounds.coordinates)}
         IN  IF lons # {} /\ lats # {}
             THEN LET delta_lon == SetMax(lons) - SetMin(lons)
                      delta_lat == SetMax(lats) - SetMin(lats)
                  IN  IF delta_lon > 0 /\ delta_lat > 0
                      THEN Max2(1, Min2(Min2(FloorLog2(360 * 1024, delta_lon),
                                             FloorLog2(180 * 1024, delta_lat))
                                        + 1, 16))
                      ELSE 10
             ELSE 10
    ELSE 10

----------------------------------------------------------------------------
(* Request validation and responses *)

NoResponse == [status |-> 0, body |-> EmptyDict]

NotInitialized ==
    [status |-> 500,
     body |-> [error |-> <<"Earth Engine not initialized on the server.">>]]

AoiRequired ==
    [status |-> 400, body |-> [error |-> <<"AOI coordinates are required.">>]]

\* data.get on a body that is not a mapping raises outside the try block
Unhandled == [status |-> 500, body |-> [unhandled |-> "AttributeError"]]

\* only a null aoi_coordinates is rejected
PrecheckNoneOnly(sentinel, d) ==
    IF sentinel = "None" THEN NotInitialized
    ELSE IF d.t # "dict" THEN Unhandled
    ELSE IF DictGet(d.v, "aoi_coordinates", PyNone) = PyNone THEN AoiRequired
    ELSE NoResponse

\* the body is validated before the sentinel is looked at
PrecheckAoiFirst(sentinel, d) ==
    IF d.t # "dict" THEN Unhandled
    ELSE IF ~Truthy(DictGet(d.v, "aoi_coordinates", PyNone)) THEN AoiRequired
    ELSE IF sentinel = "None" THEN NotInitialized
    ELSE NoResponse

\* lines 46-54: the early returns; NoResponse when the handler goes on
Precheck(sentinel, d) ==
    IF sentinel = "None" THEN NotInitialized
    ELSE IF d.t # "dict" THEN Unhandled
    ELSE IF ~Truthy(DictGet(d.v, "aoi_coordinates", PyNone)) THEN AoiRequired
    ELSE NoResponse

\* the cause text is left out of the message
ErrorResponseGeneric(e) ==
    [status |-> 500, body |-> [error |-> <<"Failed to perform analysis">>]]

\* lines 270-274
ErrorResponse(e) ==
    [status |-> 500,
     body |-> [error |-> <<"Failed to perform analysis: ", e>>]]

\* lines 253-268
SuccessResponse(suit_url, solar_url, chart, elev, slp, mwh, panels, center, zoom) ==
    [status |-> 200,
     body |-> [status |-> "success",
               suitability_tile_url |-> suit_url,
               solar_radiation_tile_url |-> solar_url,
               chart_data |-> chart,
               elevation_min |-> DictGet(elev, "elevation_min", PyNone),
               elevation_max |-> DictGet(elev, "elevation_max", PyNone),
               slope_min |-> DictGet(slp, "slope_min", PyNone),
               slope_max |-> DictGet(slp, "slope_max", PyNone),
               power_generation_mwh |-> mwh,
               num_panels |-> panels,
               map_center |-> center,
               map_zoom |-> zoom]]

----------------------------------------------------------------------------
(* Inputs *)

SampleRing == <<<<0, 0>>, <<1024, 0>>, <<1024, 1024>>, <<0, 1024>>, <<0, 0>>>>

\* request bodies: JSON null, [], {}, and mappings whose aoi_coordinates is
\* null, [] or a polygon
Bodies ==
    {PyNone, List(<<>>), Dict(EmptyDict),
     Dict([aoi_coordinates |-> PyNone]),
     Dict([aoi_coordinates |-> List(<<>>)]),
     Dict([aoi_coordinates |-> List(<<SampleRing>>)])}

Causes == {"quota exceeded", "deadline exceeded"}

\* a dictionary the backend returns: complete, empty, all null (a region
\* without pixels), or with one key missing
Results(full) ==
    {full, EmptyDict, [k \in DOMAIN full |-> PyNone]}
    \cup {[k \in DOMAIN full \ {m} |-> full[k]] : m \in DOMAIN full}

ElevationStatsFull == [elevation_min |-> Num(12), elevation_max |-> Num(340)]

SlopeStatsFull ==
    [slope_min |-> Num(0), slope_max |-> Num(31), slope_mean |-> Num(6)]

Elevations == {9, 10, 30, 31, 1999, 2000}
Slopes == {4, 5, 7, 10, 11}
LandCovers == {10, 20, 60}
PixelAreas == {36, 100}

Cells ==
    [elevation : Elevations, slope : Slopes, lulc : LandCovers,
     area : PixelAreas]

Centroids == {<<0 - 122 * 1024, 37 * 1024>>, <<512, 512>>}

\* the bounding polygon of west..east by south..north
BoundsRing(west, south, east, north) ==
    <<<<west, south>>, <<east, south>>, <<east, north>>, <<west, north>>,
      <<west, south>>>>

BoundsOf(dlons, dlats) ==
    {[type |-> "Polygon"],
     [type |-> "Polygon", coordinates |-> <<>>],
     [type |-> "Polygon", coordinates |-> << <<>> >>]}
    \cup {[type |-> "Polygon",
           coordinates |-> <<BoundsRing(0 - 180 * 1024, 0 - 90 * 1024,
                                        dlon - 180 * 1024, dlat - 90 * 1024)>>] :
             <<dlon, dlat>> \in dlons \X dlats}

\* what the bounds call returns in the handler
BoundsResults == BoundsOf({0, 360}, {0, 181})

\* bounding boxes for the viewport framer on its own
ViewportBounds ==
    BoundsOf({0, 1, 5, 6, 11, 12, 360, 361, 720, 90 * 1024, 180 * 1024, 360 * 1024},
             {0, 1, 2, 3, 5, 6, 180, 181, 45 * 1024, 90 * 1024, 180 * 1024})

----------------------------------------------------------------------------
(* State *)

NoCell == [elevation |-> 0, slope |-> 0, lulc |-> 0, area |-> 0]

NoImg ==
    [dem_class |-> 0, slope_class |-> 0, class_lulc |-> 0,
     suitability_raw |-> 0, suitability |-> 0, mask |-> 0]

ZeroSums == [i \in 1..4 |-> 0]

CallOrder ==
    <<"elevation_stats", "slope_stats", "suitability_tile", "area_by_class",
      "solar_tile", "centroid", "bounds">>

\* lines 9-15: initialization either succeeds or sets the sentinel to None
Init ==
    /\ ee \in {"module", "None"}
    /\ pc = "idle"
    /\ data = PyNone
    /\ calls = <<>>
    /\ elevation_stats = EmptyDict
    /\ slope_stats = EmptyDict
    /\ cell = NoCell
    /\ img = NoImg
    /\ pixels = 0
    /\ area_sum = ZeroSums
    /\ total_area_by_class = EmptyDict
    /\ chart_data_features = <<>>
    /\ power_generation_mwh = 0
    /\ num_panels = 0
    /\ suitability_tile_url = ""
    /\ solar_radiation_tile_url = ""
    /\ map_center = <<>>
    /\ bounds_geojson = EmptyDict
    /\ map_zoom = 0
    /\ response = NoResponse
    /\ raised = ""
    /\ prev_estimate = [areas |-> EmptyDict, mwh |-> 0, panels |-> 0]

----------------------------------------------------------------------------
(* The handler *)

\* lines 41-74: a request arrives; the early returns, then the local
\* construction of the geometry and the first expression graphs
Request ==
    /\ pc \in {"idle", "responded"}
    /\ \E d \in Bodies :
          /\ data' = d
          /\ response' = Precheck(ee, d)
          /\ pc' = IF Precheck(ee, d).status = 0
                   THEN "elevation_stats" ELSE "responded"
    /\ calls' = <<>>
    /\ elevation_stats' = EmptyDict
    /\ slope_stats' = EmptyDict
    /\ cell' = NoCell
    /\ img' = NoImg
    /\ pixels' = 0
    /\ area_sum' = ZeroSums
    /\ total_area_by_class' = EmptyDict
    /\ chart_data_features' = <<>>
    /\ power_generation_mwh' = 0
    /\ num_panels' = 0
    /\ suitability_tile_url' = ""
    /\ solar_radiation_tile_url' = ""
    /\ map_center' = <<>>
    /\ bounds_geojson' = EmptyDict
    /\ map_zoom' = 0
    /\ raised' = ""
    /\ UNCHANGED <<ee, prev_estimate>>

\* lines 78-83
ElevationStats ==
    /\ pc = "elevation_stats"
    /\ calls' = Append(calls, "elevation_stats")
    /\ \E r \in Results(ElevationStatsFull) : elevation_stats' = r
    /\ pc' = "slope_stats"
    /\ UNCHANGED <<ee, data, slope_stats, backendVars, yieldVars, tileVars,
                   viewVars, response, raised, prev_estimate>>

\* lines 86-103
SlopeStats ==
    /\ pc = "slope_stats"
    /\ calls' = Append(calls, "slope_stats")
    /\ \E r \in Results(SlopeStatsFull) : slope_stats' = r
    /\ pc' = "suitability_tile"
    /\ UNCHANGED <<ee, data, elevation_stats, backendVars, yieldVars,
                   tileVars, viewVars, response, raised, prev_estimate>>

\* lines 105-137
SuitabilityTile ==
    /\ pc = "suitability_tile"
    /\ calls' = Append(calls, "suitability_tile")
    /\ suitability_tile_url' = "https://tiles/suitability/{z}/{x}/{y}"
    /\ pc' = "area_by_class"
    /\ UNCHANGED <<ee, data, statVars, backendVars, yieldVars,
                   solar_radiation_tile_url, viewVars, response,
                   raised, prev_estimate>>

\* lines 139-157: the area reduction is sent to the backend
AreaByClassCall ==
    /\ pc = "area_by_class"
    /\ calls' = Append(calls, "area_by_class")
    /\ pc' = "area_pending"
    /\ UNCHANGED <<ee, data, statVars, backendVars, yieldVars, tileVars,
                   viewVars, response, raised, prev_estimate>>

\* lines 64-74, 86-94, 107-127, 144-156: the backend evaluates the
\* expression graph at one more pixel of the AOI and adds it to the sums
EvalPixel ==
    /\ pc = "area_pending"
    /\ pixels < MaxPixels
    /\ \E c \in Cells :
          /\ cell' = c
          /\ img' = Classify(c)
          /\ area_sum' = [i \in 1..4 |->
                             area_sum[i] + AreaBands(Classify(c), c.area)[i]]
    /\ pixels' = pixels + 1
    /\ UNCHANGED <<ee, pc, data, calls, statVars, yieldVars, tileVars,
                   viewVars, response, raised, prev_estimate>>

\* lines 157-183: the area reduction returns; chart rows, energy, panels
AreaByClass ==
    /\ pc = "area_pending"
    /\ \E r \in Results([k \in {names[i] : i \in 1..4} |->
                            Num(area_sum[CHOOSE i \in 1..4 : names[i] = k])]) :
          /\ total_area_by_class' = r
          /\ chart_data_features' = ChartDataFeatures(r)
          /\ power_generation_mwh' = PowerGenerationMwh(MostSuitableArea(r))
          /\ num_panels' = NumPanels(MostSuitableArea(r))
    /\ cell' = NoCell
    /\ img' = NoImg
    /\ pixels' = 0
    /\ area_sum' = ZeroSums
    /\ pc' = "solar_tile"
    /\ UNCHANGED <<ee, data, calls, statVars, tileVars, viewVars, response,
                   raised, prev_estimate>>

\* lines 185-195
SolarTile ==
    /\ pc = "solar_tile"
    /\ calls' = Append(calls, "solar_tile")
    /\ solar_radiation_tile_url' = "https://tiles/solar/{z}/{x}/{y}"
    /\ pc' = "centroid"
    /\ UNCHANGED <<ee, data, statVars, backendVars, yieldVars,
                   suitability_tile_url, viewVars, response, raised, prev_estimate>>

\* lines 218-219
Centroid ==
    /\ pc = "centroid"
    /\ calls' = Append(calls, "centroid")
    /\ \E center \in Centroids : map_center' = <<center[2], center[1]>>
    /\ pc' = "bounds"
    /\ UNCHANGED <<ee, data, statVars, backendVars, yieldVars, tileVars,
                   bounds_geojson, map_zoom, response, raised, prev_estimate>>

\* lines 223-268
Bounds ==
    /\ pc = "bounds"
    /\ calls' = Append(calls, "bounds")
    /\ \E b \in BoundsResults :
          /\ bounds_geojson' = b
          /\ map_zoom' = MapZoom(b)
          /\ response' = SuccessResponse(suitability_tile_url,
                             solar_radiation_tile_url, chart_data_features,
                             elevation_stats, slope_stats,
                             power_generation_mwh, num_panels, map_center,
                             MapZoom(b))
    /\ pc' = "responded"
    /\ UNCHANGED <<ee, data, statVars, backendVars, yieldVars, tileVars,
                   map_center, raised, prev_estimate>>

\* lines 270-274: the remote call the handler is at raises
RemoteFailure ==
    /\ pc \in {"elevation_stats", "slope_stats", "suitability_tile",
               "solar_tile", "centroid", "bounds"}
    /\ calls' = Append(calls, pc)
    /\ \E e \in Causes : raised' = e /\ response' = ErrorResponse(e)
    /\ pc' = "responded"
    /\ UNCHANGED <<ee, data, statVars, backendVars, yieldVars, tileVars,
                   viewVars, prev_estimate>>

\* lines 151-157, 270-274: the pending area reduction raises
AreaByClassFailure ==
    /\ pc = "area_pending"
    /\ \E e \in Causes : raised' = e /\ response' = ErrorResponse(e)
    /\ cell' = NoCell
    /\ img' = NoImg
    /\ pixels' = 0
    /\ area_sum' = ZeroSums
    /\ pc' = "responded"
    /\ UNCHANGED <<ee, data, calls, statVars, yieldVars, tileVars, viewVars,
                   prev_estimate>>

Next ==
    \/ Request
    \/ ElevationStats
    \/ SlopeStats
    \/ SuitabilityTile
    \/ AreaByClassCall
    \/ EvalPixel
    \/ AreaByClass
    \/ SolarTile
    \/ Centroid
    \/ Bounds
    \/ RemoteFailure
    \/ AreaByClassFailure

Spec == Init /\ [][Next]_vars

----------------------------------------------------------------------------
(* The reclassifier on its own: pixels and constructed contribution triples *)

\* lines 64-127 at one pixel
ClassifyCell ==
    /\ \E c \in Cells : cell' = c /\ img' = Classify(c)
    /\ UNCHANGED <<ee, pc, data, calls, statVars, pixels, area_sum, yieldVars,
                   tileVars, viewVars, response, raised, prev_estimate>>

\* lines 116-127 on a triple of contribution values
ReclassifyFixture ==
    /\ \E d \in {0, 10}, s \in {0, 4, 6, 10}, l \in {0, 10} :
          img' = Overlay(d, s, l)
    /\ cell' = NoCell
    /\ UNCHANGED <<ee, pc, data, calls, statVars, pixels, area_sum, yieldVars,
                   tileVars, viewVars, response, raised, prev_estimate>>

NextReclass == ClassifyCell \/ ReclassifyFixture

SpecReclass == Init /\ [][NextReclass]_vars

----------------------------------------------------------------------------
(* The yield estimator on its own *)

AreaDict(n) ==
    [k \in {names[i] : i \in 1..4} |->
        IF k = "Most Suitable" THEN Num(n) ELSE Num(0)]

\* areas whose products with 433.5 and 144.5 are not decimal ties
YieldAreas == {0, 2, 4, 36, 72, 100, 136, 200, 5000, 10000, 10002}

YieldResults == UNION {Results(AreaDict(n)) : n \in YieldAreas}

\* lines 159-183 on an aggregation result
Estimate ==
    /\ \E r \in YieldResults :
          /\ total_area_by_class' = r
          /\ chart_data_features' = ChartDataFeatures(r)
          /\ power_generation_mwh' = PowerGenerationMwh(MostSuitableArea(r))
          /\ num_panels' = NumPanels(MostSuitableArea(r))
    /\ prev_estimate' = [areas |-> total_area_by_class,
                         mwh |-> power_generation_mwh,
                         panels |-> num_panels]
    /\ UNCHANGED <<ee, pc, data, calls, statVars, backendVars, tileVars,
                   viewVars, response, raised>>

SpecYield == Init /\ [][Estimate]_vars

----------------------------------------------------------------------------
(* The viewport framer on its own *)

\* lines 223-249 on a bounding polygon
FrameViewport ==
    /\ \E b \in ViewportBounds :
          /\ bounds_geojson' = b
          /\ map_zoom' = MapZoom(b)
    /\ UNCHANGED <<ee, pc, data, calls, statVars, backendVars, yieldVars,
                   tileVars, map_center, response, raised, prev_estimate>>

SpecZoom == Init /\ [][FrameViewport]_vars

----------------------------------------------------------------------------
(* Properties *)

PixelEvaluated == cell # NoCell

\* C1: every evaluated pixel or contribution triple has contributions in
\* {0,1}, {0,0.4,0.6,1}, {0,1}; its class is 1 for a raw sum of exactly 3,
\* 2 for exactly 2.6, 3 for exactly 2.4 and 4 for every other sum; so the
\* class is in 1..4 and the mask keeps the pixel.
ReclassExhaustive ==
    img # NoImg =>
        /\ img.dem_class \in {0, 10}
        /\ img.slope_class \in {0, 4, 6, 10}
        /\ img.class_lulc \in {0, 10}
        /\ img.suitability_raw
              = img.dem_class + img.slope_class + img.class_lulc
        /\ img.suitability = (IF img.suitability_raw = 30 THEN 1
                              ELSE IF img.suitability_raw = 26 THEN 2
                              ELSE IF img.suitability_raw = 24 THEN 3
                              ELSE 4)
        /\ img.suitability \in 1..4
        /\ img.mask = 1

ReclassMediumReached ==
    img.suitability_raw = 26 /\ img.suitability = 2 /\ img.mask = 1

\* C2 as stated: the first rule that matches, in the listed order, decides
\* the slope contribution of every evaluated pixel.
SlopeFirstMatch ==
    PixelEvaluated =>
        img.slope_class
          = (IF cell.slope < 5 THEN 10
             ELSE IF cell.slope > 5 /\ cell.elevation < 10 THEN 6
             ELSE IF cell.slope > 10 THEN 4
             ELSE 0)

\* C2 amended: the slope contribution of every evaluated pixel is 1 if
\* slope < 5; otherwise 0.4 if slope > 10; otherwise 0.6 if slope > 5 and
\* elevation < 10; otherwise 0.
SlopeBands ==
    PixelEvaluated =>
        img.slope_class
          = (IF cell.slope < 5 THEN 10
             ELSE IF cell.slope > 10 THEN 4
             ELSE IF cell.slope > 5 /\ cell.elevation < 10 THEN 6
             ELSE 0)

SteepLowPixel ==
    /\ PixelEvaluated
    /\ cell.slope > 10
    /\ cell.elevation < 10
    /\ img.slope_class = 4

AoiMissing ==
    /\ data.t = "dict"
    /\ \/ "aoi_coordinates" \notin DOMAIN data.v
       \/ data.v["aoi_coordinates"] = PyNone
       \/ data.v["aoi_coordinates"] = List(<<>>)

\* C3 as stated: every request whose aoi_coordinates is missing or empty
\* ends in an HTTP 400 response and issues no remote call.
MissingAoiIs400 ==
    (pc = "responded" /\ AoiMissing) =>
        (response.status = 400 /\ calls = <<>>)

\* C3 amended: a request whose body is a mapping with aoi_coordinates missing
\* or empty issues no remote call; it ends in the HTTP 400 validation error
\* when backend initialization had succeeded, and in the HTTP 500
\* not-initialized error when it had failed.
MissingAoiRejected ==
    (pc = "responded" /\ AoiMissing) =>
        /\ calls = <<>>
        /\ raised = ""
        /\ DOMAIN response.body = {"error"}
        /\ ee = "module" =>
              /\ response.status = 400
              /\ response.body.error = <<"AOI coordinates are required.">>
        /\ ee = "None" => response.status = 500

EmptyAoiRejected ==
    /\ pc = "responded"
    /\ ee = "module"
    /\ data = Dict([aoi_coordinates |-> List(<<>>)])
    /\ response.status = 400
    /\ calls = <<>>

SuccessFields ==
    {"status", "suitability_tile_url", "solar_radiation_tile_url",
     "chart_data", "elevation_min", "elevation_max", "slope_min",
     "slope_max", "power_generation_mwh", "num_panels", "map_center",
     "map_zoom"}

CallsArePrefix ==
    /\ Len(calls) <= Len(CallOrder)
    /\ \A i \in DOMAIN calls : calls[i] = CallOrder[i]

\* C4: the remote calls of a request are always a prefix of the fixed order
\* (one at a time, none repeated); when one raises, the request has ended
\* with the failed call as the last one issued, in an HTTP 500 response
\* whose message contains the cause text and which has no success field; a
\* success response is only given after all seven calls; and after a failure
\* no call is added to those of the failed request.
FailFast ==
    /\ [](/\ CallsArePrefix
          /\ raised # "" =>
                /\ pc = "responded"
                /\ calls # <<>>
                /\ response.status = 500
                /\ DOMAIN response.body = {"error"}
                /\ \E i \in DOMAIN response.body.error :
                      response.body.error[i] = raised
                /\ DOMAIN response.body \cap SuccessFields = {}
          /\ response.status = 200 => (calls = CallOrder /\ raised = ""))
    /\ [][raised # "" => calls' = <<>>]_vars

AreaCallFailed ==
    /\ raised # ""
    /\ calls = SubSeq(CallOrder, 1, 4)
    /\ response.status = 500
    /\ pc = "responded"

Absent(d, key) == key \notin DOMAIN d \/ d[key] = PyNone

\* C5: a response after all remote calls is a success, and in it every value
\* whose statistic key the aggregation result lacks (or holds as null) is
\* zero: the four class areas, energy and panels, and elevation and slope
\* min/max.
MissingStatsAreZero ==
    /\ (pc = "responded" /\ calls = CallOrder /\ raised = "")
          => response.status = 200
    /\ response.status = 200 =>
          /\ \A i \in 1..4 :
                Absent(total_area_by_class, names[i])
                   => response.body.chart_data[i].Area = 0
          /\ Absent(total_area_by_class, "Most Suitable") =>
                /\ response.body.power_generation_mwh = 0
                /\ response.body.num_panels = 0
          /\ Absent(elevation_stats, "elevation_min")
                => response.body.elevation_min = Num(0)
          /\ Absent(elevation_stats, "elevation_max")
                => response.body.elevation_max = Num(0)
          /\ Absent(slope_stats, "slope_min")
                => response.body.slope_min = Num(0)
          /\ Absent(slope_stats, "slope_max")
                => response.body.slope_max = Num(0)

HasBox ==
    /\ "coordinates" \in DOMAIN bounds_geojson
    /\ bounds_geojson.coordinates # <<>>
    /\ bounds_geojson.coordinates[1] # <<>>

\* extent of the bounding polygon: corner 3 is (east, north), 1 (west, south)
DeltaLon ==
    bounds_geojson.coordinates[1][3][1] - bounds_geojson.coordinates[1][1][1]
DeltaLat ==
    bounds_geojson.coordinates[1][3][2] - bounds_geojson.coordinates[1][1][2]

\* 2^k boxes of this extent fit in the world along both axes
FitsAt(k) ==
    /\ DeltaLon <= (360 * 1024) \div (2 ^ k)
    /\ DeltaLat <= (180 * 1024) \div (2 ^ k)

\* C6: the zoom is 10 when the bounds carry no coordinates or an extent is
\* not positive; otherwise it is clamp(floor(min(log2(360/delta_lon),
\* log2(180/delta_lat))) + 1, 1, 16): an integer z in 1..16 such that the
\* box fits 2^(z-1) times when z > 1 and does not fit 2^z times when z < 16;
\* it is 1 for the global extent.
ZoomFormula ==
    map_zoom # 0 =>
        IF ~HasBox \/ DeltaLon <= 0 \/ DeltaLat <= 0
        THEN map_zoom = 10
        ELSE /\ map_zoom \in 1..16
             /\ map_zoom > 1 => FitsAt(map_zoom - 1)
             /\ map_zoom < 16 => ~FitsAt(map_zoom)
             /\ (DeltaLon = 360 * 1024 /\ DeltaLat = 180 * 1024)
                   => map_zoom = 1

GlobalExtentZoom ==
    /\ HasBox
    /\ DeltaLon = 360 * 1024
    /\ DeltaLat = 180 * 1024
    /\ map_zoom = 1

AreaOf(d) ==
    IF Absent(d, "Most Suitable") THEN 0 ELSE d["Most Suitable"].v

Abs(x) == IF x < 0 THEN 0 - x ELSE x

\* C7: energy and panels are zero when the Most Suitable area is zero or
\* unavailable; energy is area x 1.7 x 0.85 x 300 to the nearest thousandth
\* and panels area x 1.7 x 0.85 x 1,000,000 to the nearest integer; and of
\* two consecutive estimates the one with the smaller area has no larger
\* energy and no more panels.
YieldMonotone ==
    LET a1 == AreaOf(prev_estimate.areas)
        a2 == AreaOf(total_area_by_class)
    IN  /\ a2 = 0 => (power_generation_mwh = 0 /\ num_panels = 0)
        /\ 2 * Abs(power_generation_mwh * 100 - a2 * 4335) <= 100
        /\ 2 * Abs(num_panels * 10 - a2 * 1445) <= 10
        /\ a1 <= a2 => /\ prev_estimate.mwh <= power_generation_mwh
                       /\ prev_estimate.panels <= num_panels
        /\ a2 <= a1 => /\ power_generation_mwh <= prev_estimate.mwh
                       /\ num_panels <= prev_estimate.panels

YieldGrew ==
    /\ AreaOf(prev_estimate.areas) = 36
    /\ AreaOf(total_area_by_class) = 10000
    /\ prev_estimate.mwh = 1561
    /\ power_generation_mwh = 433500
    /\ num_panels = 1445000

\* C8: when initialization failed (the sentinel is None) no remote call is
\* ever issued, the handler never gets past its first check, and every
\* response is an HTTP 500; and the sentinel never changes.
BackendUnavailable ==
    /\ [](ee = "None" =>
             /\ calls = <<>>
             /\ pc \in {"idle", "responded"}
             /\ pc = "responded" => response.status = 500)
    /\ [][ee' = ee]_vars

ValidRequestRefused ==
    /\ ee = "None"
    /\ pc = "responded"
    /\ data = Dict([aoi_coordinates |-> List(<<SampleRing>>)])
    /\ response.status = 500
    /\ calls = <<>>

\* the three slope rules in the listed order
SlopeRules ==
    <<[test |-> cell.slope < 5, value |-> 10],
      [test |-> cell.slope > 5 /\ cell.elevation < 10, value |-> 6],
      [test |-> cell.slope > 10, value |-> 4]>>

Matching == {i \in DOMAIN SlopeRules : SlopeRules[i].test}

\* C9: the slope contribution of every evaluated pixel is the value of the
\* last rule, in the listed order, that the pixel matches, and 0 when it
\* matches none.
SlopeLastWriterWins ==
    PixelEvaluated =>
        img.slope_class
          = (IF Matching = {} THEN 0 ELSE SlopeRules[SetMax(Matching)].value)

TwoRulesMatched ==
    /\ PixelEvaluated
    /\ Cardinality(Matching) = 2
    /\ img.slope_class = SlopeRules[3].value

\* C10: no evaluated pixel has class 2, and the Medium Suitable area is 0 in
\* the backend sums, in the aggregation result, in the chart rows and in the
\* response.
NoMediumClass ==
    /\ PixelEvaluated => img.suitability \in {1, 3, 4}
    /\ area_sum[2] = 0
    /\ ~Absent(total_area_by_class, "Medium Suitable")
          => total_area_by_class["Medium Suitable"].v = 0
    /\ chart_data_features # <<>> => chart_data_features[2].Area = 0
    /\ response.status = 200 => response.body.chart_data[2].Area = 0

NearMediumPixel ==
    /\ PixelEvaluated
    /\ cell.elevation < 10
    /\ img.slope_class = 6
    /\ img.class_lulc = 10
    /\ img.dem_class = 0
    /\ img.suitability = 4

====
